---- MODULE Spec2Model ----
(***************************************************************************)
(* Model of the submission-finalisation Lambda (src/index.js).             *)
(*                                                                         *)
(* One record per invocation of exports.handler holds the handler's local  *)
(* variables, the promises it awaits and a log of the calls it has made.   *)
(* The process environment, the GCS bucket and the DynamoDB table are      *)
(* shared by all invocations.  Every action is one run-to-completion job   *)
(* of the Node.js event loop: the code between two awaits, or the callback *)
(* of one backend event.                                                   *)
(***************************************************************************)
EXTENDS Naturals, Sequences, FiniteSets, TLC

VARIABLES inv, processEnv, bucket, table

vars == <<inv, processEnv, bucket, table>>

(* ---------------------------------------------------------------------- *)
(* Bounds and input domains                                               *)
(* ---------------------------------------------------------------------- *)

\* Number of invocations of the handler the platform runs (concurrently).
MaxInvocations == 1

Invocations == 1..MaxInvocations

\* JavaScript's undefined, as the value of a missing property.
Undefined == "<undefined>"

FieldNames == {"submissionUrl", "email", "userId", "submissionId", "assignmentId"}

\* The message that carries all five fields.
FullMessage ==
  [submissionUrl |-> "https://x/a.zip", email |-> "u@e.com", userId |-> "42",
   submissionId |-> "s1", assignmentId |-> "hw1"]

NoFields == [f \in FieldNames |-> Undefined]

\* Decoded message bodies: every subset of the five fields may be missing.
Messages ==
  {[f \in FieldNames |-> IF f \in present THEN FullMessage[f] ELSE Undefined] :
     present \in SUBSET FieldNames}

\* Trigger payloads.  shape says what event.Records[0].Sns.Message is:
\*   "noRecords": the event has no Records array;
\*   "badJson":   Message is not JSON text;
\*   "null":      Message is the JSON text null;
\*   "object":    Message is the JSON text of an object with `fields`.
Events ==
  {[shape |-> s, fields |-> NoFields] : s \in {"noRecords", "badJson", "null"}}
  \cup {[shape |-> "object", fields |-> m] : m \in Messages}

\* process.env: gcpKey says whether the storage configuration is usable
\* (GCP_SERVICE_ACCOUNT_PVT_KEY holds a parseable key, GCS_BUCKET_NAME is
\* set); emailKey says whether EMAIL_API_KEY is set.
Environments == [gcpKey : BOOLEAN, emailKey : BOOLEAN]

(* ---------------------------------------------------------------------- *)
(* Values                                                                 *)
(* ---------------------------------------------------------------------- *)

\* A promise is "none" (not created), "pending", "true"/"false" (fulfilled
\* with that boolean) or "rejected".
Fulfilled(p) == p \in {"true", "false"}

Settled(p) == p \in {"true", "false", "rejected"}

PromiseValue(p) == p = "true"

HasAllFields(m) == \A f \in FieldNames : m[f] # Undefined

\* The state of an invocation before the handler has run.
NewInvocation(e) ==
  [pc               |-> "start",
   event            |-> e,
   snsMessage       |-> NoFields,
   file             |-> "none",
   submissionStatus |-> FALSE,
   gcsStatus        |-> FALSE,
   emailStatus      |-> FALSE,
   uploadP          |-> "none",
   stream           |-> "none",
   gcsFileName      |-> "",
   emailP           |-> "none",
   putP             |-> "none",
   fetches          |-> 0,
   uploads          |-> 0,
   emails           |-> <<>>,
   delivered        |-> <<>>,
   puts             |-> <<>>,
   statusLog        |-> <<>>,
   result           |-> "pending"]

(* ---------------------------------------------------------------------- *)
(* Pure parts of the code                                                 *)
(* ---------------------------------------------------------------------- *)

\* index.js:16-18.  JSON.parse(event.Records[0].Sns.Message) followed by the
\* destructuring throws when the event has no Records, when Message is not
\* JSON, and when it is the JSON null (null cannot be destructured).  An
\* object that lacks a property does not throw: the variable is undefined.
ParseThrows(e) == e.shape \in {"noRecords", "badJson", "null"}

Destructure(e) == e.fields

\* Template literal conversion of a value: undefined prints as "undefined".
ToStr(v) == IF v = Undefined THEN "undefined" ELSE v

\* index.js:81
GcsFileName(assignmentId, userId) ==
  ToStr(assignmentId) \o "/" \o ToStr(userId) \o ".zip"

\* index.js:113-121 (the timestamp is left out).
Item(snsMessage) ==
  [id               |-> snsMessage.submissionId,
   userId           |-> snsMessage.userId,
   email            |-> snsMessage.email,
   assignmentId     |-> snsMessage.assignmentId,
   submissionStatus |-> snsMessage.submissionStatus,
   gcsStatus        |-> snsMessage.gcsStatus,
   emailStatus      |-> snsMessage.emailStatus]

\* The document client refuses to marshall an item with an undefined value.
Marshallable(item) ==
  /\ item.id # Undefined
  /\ item.userId # Undefined
  /\ item.email # Undefined
  /\ item.assignmentId # Undefined

\* Promise.all over a tuple of promises (index.js:26): rejected as soon as
\* one is rejected, fulfilled once all are, pending otherwise.
PromiseAll(ps) ==
  IF \E k \in DOMAIN ps : ps[k] = "rejected" THEN "rejected"
  ELSE IF \A k \in DOMAIN ps : Fulfilled(ps[k]) THEN "fulfilled"
  ELSE "pending"

(* ---------------------------------------------------------------------- *)
(* The functions of index.js, as transformers of an invocation record r   *)
(* ---------------------------------------------------------------------- *)

\* index.js:50-52: the catch block logs; the async function then returns.
Caught(r) == [r EXCEPT !.pc = "aborted", !.result = "resolved"]

\* index.js:141-170, up to the hand-over to the backend.  mailgun({apiKey,
\* domain}) throws when the API key is not set; the call is outside any try,
\* so the promise of the async function is rejected.
sendEmailToUser(r, env, type) ==
  [r EXCEPT !.emails = Append(@, [to |-> r.snsMessage.email, kind |-> type]),
            !.emailP = IF env.emailKey THEN "pending" ELSE "rejected"]

\* uploadToGCS with the object named after the submission as well.
uploadToGCSKeyPerSubmission(r, env) ==
  IF env.gcpKey
  THEN [r EXCEPT !.uploads = @ + 1,
                 !.gcsFileName =
                    ToStr(r.snsMessage.assignmentId) \o "/" \o
                    ToStr(r.snsMessage.userId) \o "/" \o
                    ToStr(r.snsMessage.submissionId) \o ".zip",
                 !.stream = "piping",
                 !.uploadP = "pending"]
  ELSE [r EXCEPT !.uploads = @ + 1, !.uploadP = "false"]

\* index.js:72-101, up to the return of the promise.  An unusable storage
\* configuration throws inside the try: the catch returns false.  Otherwise
\* the source stream is piped into the write stream.
uploadToGCS(r, env) ==
  IF env.gcpKey
  THEN [r EXCEPT !.uploads = @ + 1,
                 !.gcsFileName =
                    GcsFileName(r.snsMessage.assignmentId, r.snsMessage.userId),
                 !.stream = "piping",
                 !.uploadP = "pending"]
  ELSE [r EXCEPT !.uploads = @ + 1, !.uploadP = "false"]

\* index.js:108-126, up to docClient.send(params).
createEventInDynamoDB(r, snsMessage) ==
  [r EXCEPT !.puts = Append(@, Item(snsMessage)), !.putP = "pending"]

\* index.js:32-49: the status log line, then the audit write is started.
Record(r) ==
  LET logged == [r EXCEPT !.statusLog = Append(@,
                    [submissionStatus |-> r.submissionStatus,
                     gcsStatus        |-> r.submissionStatus,
                     emailStatus      |-> r.emailStatus])]
      arg == [userId           |-> r.snsMessage.userId,
              email            |-> r.snsMessage.email,
              assignmentId     |-> r.snsMessage.assignmentId,
              submissionId     |-> r.snsMessage.submissionId,
              submissionStatus |-> r.submissionStatus,
              gcsStatus        |-> r.gcsStatus,
              emailStatus      |-> r.emailStatus]
  IN [createEventInDynamoDB(logged, arg) EXCEPT !.pc = "awaitPut"]

\* index.js:10-20: entry of the handler up to the await of the download.
HandlerStart(r) ==
  IF ParseThrows(r.event)
  THEN Caught(r)
  ELSE [r EXCEPT !.snsMessage = Destructure(r.event),
                 !.fetches = @ + 1,
                 !.pc = "fetching"]

\* AfterDownload with the test of line 21 inverted (`if (file)`).
AfterDownloadInverted(r, env, file) ==
  IF file # "false"
  THEN [sendEmailToUser([r EXCEPT !.file = file], env, "fail")
          EXCEPT !.pc = "awaitEmail"]
  ELSE [sendEmailToUser(
          uploadToGCS([r EXCEPT !.file = file, !.submissionStatus = TRUE], env),
          env, "success")
          EXCEPT !.pc = "awaitAll"]

\* AfterDownload with the notification of line 28 copied into the failure
\* branch unchanged (kind "success").
AfterDownloadSuccessKind(r, env, file) ==
  IF file = "false"
  THEN [sendEmailToUser([r EXCEPT !.file = file], env, "success")
          EXCEPT !.pc = "awaitEmail"]
  ELSE [sendEmailToUser(
          uploadToGCS([r EXCEPT !.file = file, !.submissionStatus = TRUE], env),
          env, "success")
          EXCEPT !.pc = "awaitAll"]

\* AfterDownload with one retry of a failed download.
AfterDownloadRetry(r, env, file) ==
  IF file = "false" /\ r.fetches < 2
  THEN [r EXCEPT !.fetches = @ + 1]
  ELSE IF file = "false"
  THEN [sendEmailToUser([r EXCEPT !.file = file], env, "fail")
          EXCEPT !.pc = "awaitEmail"]
  ELSE [sendEmailToUser(
          uploadToGCS([r EXCEPT !.file = file, !.submissionStatus = TRUE], env),
          env, "success")
          EXCEPT !.pc = "awaitAll"]

\* index.js:20-30: the download has settled (file is the response or
\* false); the handler branches and runs to its next await.
AfterDownload(r, env, file) ==
  IF file = "false"
  THEN [sendEmailToUser([r EXCEPT !.file = file], env, "fail")
          EXCEPT !.pc = "awaitEmail"]
  ELSE [sendEmailToUser(
          uploadToGCS([r EXCEPT !.file = file, !.submissionStatus = TRUE], env),
          env, "success")
          EXCEPT !.pc = "awaitAll"]

\* AfterFailEmail with the audit write moved into the success branch: the
\* failure branch returns without recording.
AfterFailEmailNoRecord(r) ==
  IF r.emailP = "rejected"
  THEN Caught(r)
  ELSE [r EXCEPT !.emailStatus = PromiseValue(r.emailP),
                 !.pc = "done", !.result = "resolved"]

\* index.js:22: the awaited failure notification has settled.
AfterFailEmail(r) ==
  IF r.emailP = "rejected"
  THEN Caught(r)
  ELSE Record([r EXCEPT !.emailStatus = PromiseValue(r.emailP)])

\* AfterPromiseAll with the upload result assigned to gcsStatus.
AfterPromiseAllToGcsStatus(r) ==
  IF PromiseAll(<<r.uploadP, r.emailP>>) = "rejected"
  THEN Caught(r)
  ELSE Record([r EXCEPT !.gcsStatus = PromiseValue(r.uploadP),
                        !.emailStatus = PromiseValue(r.emailP)])

\* index.js:26-29: Promise.all has settled; its two values are assigned to
\* submissionStatus and emailStatus.
AfterPromiseAll(r) ==
  IF PromiseAll(<<r.uploadP, r.emailP>>) = "rejected"
  THEN Caught(r)
  ELSE Record([r EXCEPT !.submissionStatus = PromiseValue(r.uploadP),
                        !.emailStatus = PromiseValue(r.emailP)])

\* index.js:55-70: the value downloadSubmissionZip resolves to, given whether
\* axios.get resolved.
downloadSubmissionZip(axiosResolved) ==
  IF axiosResolved THEN "response" ELSE "false"

\* EmailResult with the catch of line 175 returning false.
EmailResultFalseOnError(accepted) == IF accepted THEN "true" ELSE "false"

\* index.js:171-179: the value sendEmailToUser resolves to, given whether the
\* backend accepted the message (then) or the call failed (catch).
EmailResult(accepted) == IF accepted THEN "true" ELSE "true"

\* PutResult with the error of the store passed on instead of caught.
PutResultRethrow(stored) == IF stored THEN "true" ELSE "rejected"

\* index.js:127-138: the value createEventInDynamoDB resolves to: true from
\* then, false from the catch of the promise and from the catch of the try.
PutResult(stored) == IF stored THEN "true" ELSE "false"

\* index.js:41-53: the audit write has settled; the handler returns.
AfterPut(r, p) == [r EXCEPT !.putP = p, !.pc = "done", !.result = "resolved"]

(* ---------------------------------------------------------------------- *)
(* Specification                                                          *)
(* ---------------------------------------------------------------------- *)

InitWith(I, E) ==
  /\ inv \in [I -> {NewInvocation(e) : e \in E}]
  /\ processEnv \in Environments
  /\ bucket = {}
  /\ table = {}

Init == InitWith(Invocations, Events)

\* The platform calls exports.handler(event).
Invoke(i) ==
  /\ inv[i].pc = "start"
  /\ inv' = [inv EXCEPT ![i] = HandlerStart(@)]
  /\ UNCHANGED <<processEnv, bucket, table>>

\* axios.get settles.  Without a URL it cannot resolve.
DownloadSettles(i) ==
  /\ inv[i].pc = "fetching"
  /\ \E ok \in BOOLEAN :
       /\ ok => inv[i].snsMessage.submissionUrl # Undefined
       /\ inv' = [inv EXCEPT ![i] =
                    AfterDownload(@, processEnv, downloadSubmissionZip(ok))]
  /\ UNCHANGED <<processEnv, bucket, table>>

\* The mail backend answers.  It accepts only a message with a recipient.
EmailSettles(i) ==
  /\ inv[i].emailP = "pending"
  /\ \E accepted \in BOOLEAN :
       LET mail == inv[i].emails[Len(inv[i].emails)] IN
       /\ accepted => mail.to # Undefined
       /\ inv' = [inv EXCEPT ![i].emailP = EmailResult(accepted),
                             ![i].delivered =
                                IF accepted THEN Append(@, mail) ELSE @]
  /\ UNCHANGED <<processEnv, bucket, table>>

\* WriteStreamFinish for a write stream created with the precondition that
\* the object does not exist yet: the first writer wins, a later one fails.
WriteStreamFinishIfAbsent(i) ==
  /\ inv[i].stream = "piping"
  /\ IF \E o \in bucket : o.key = inv[i].gcsFileName
     THEN /\ bucket' = bucket
          /\ inv' = [inv EXCEPT ![i].stream = "errored", ![i].uploadP = "false"]
     ELSE /\ \E complete \in BOOLEAN :
               bucket' = bucket \cup
                 {[key |-> inv[i].gcsFileName, from |-> i, complete |-> complete]}
          /\ inv' = [inv EXCEPT ![i].stream = "finished", ![i].uploadP = "true"]
  /\ UNCHANGED <<processEnv, table>>

\* index.js:85-87, 97-100: the write stream, created without a precondition
\* on the object, signals "finish"; the object now holds
\* what the source stream delivered (all of it, or less if it ended early).
WriteStreamFinish(i) ==
  /\ inv[i].stream = "piping"
  /\ \E complete \in BOOLEAN :
       bucket' = {o \in bucket : o.key # inv[i].gcsFileName} \cup
                 {[key |-> inv[i].gcsFileName, from |-> i, complete |-> complete]}
  /\ inv' = [inv EXCEPT ![i].stream = "finished", ![i].uploadP = "true"]
  /\ UNCHANGED <<processEnv, table>>

\* index.js:92-95: the write stream signals "error".
WriteStreamError(i) ==
  /\ inv[i].stream = "piping"
  /\ inv' = [inv EXCEPT ![i].stream = "errored", ![i].uploadP = "false"]
  /\ UNCHANGED <<processEnv, bucket, table>>

\* index.js:89: the source stream fails.  pipe() does not forward the error
\* and does not end the write stream, and no listener is registered on the
\* source: the write stream signals neither "finish" nor "error".
SourceStreamError(i) ==
  /\ inv[i].stream = "piping"
  /\ inv' = [inv EXCEPT ![i].stream = "srcError"]
  /\ UNCHANGED <<processEnv, bucket, table>>

\* The handler resumes after `await sendEmailToUser(email, "fail")`.
ResumeAfterFailEmail(i) ==
  /\ inv[i].pc = "awaitEmail"
  /\ Settled(inv[i].emailP)
  /\ inv' = [inv EXCEPT ![i] = AfterFailEmail(@)]
  /\ UNCHANGED <<processEnv, bucket, table>>

\* The handler resumes after `await Promise.all([...])`.
ResumeAfterPromiseAll(i) ==
  /\ inv[i].pc = "awaitAll"
  /\ PromiseAll(<<inv[i].uploadP, inv[i].emailP>>) # "pending"
  /\ inv' = [inv EXCEPT ![i] = AfterPromiseAll(@)]
  /\ UNCHANGED <<processEnv, bucket, table>>

\* docClient.send settles: the store keeps the item under its id (replacing
\* an older item with that id) or refuses it.
PutSettles(i) ==
  /\ inv[i].pc = "awaitPut"
  /\ inv[i].putP = "pending"
  /\ \E stored \in BOOLEAN :
       LET item == inv[i].puts[Len(inv[i].puts)] IN
       /\ stored => Marshallable(item)
       /\ table' = IF stored
                   THEN {t \in table : t.id # item.id} \cup {item}
                   ELSE table
       /\ inv' = [inv EXCEPT ![i] = AfterPut(@, PutResult(stored))]
  /\ UNCHANGED <<processEnv, bucket>>

InvNext(i) ==
  \/ Invoke(i)
  \/ DownloadSettles(i)
  \/ EmailSettles(i)
  \/ WriteStreamFinish(i)
  \/ WriteStreamError(i)
  \/ SourceStreamError(i)
  \/ ResumeAfterFailEmail(i)
  \/ ResumeAfterPromiseAll(i)
  \/ PutSettles(i)

Next ==
  \/ \E i \in DOMAIN inv : Invoke(i)
  \/ \E i \in DOMAIN inv : DownloadSettles(i)
  \/ \E i \in DOMAIN inv : EmailSettles(i)
  \/ \E i \in DOMAIN inv : WriteStreamFinish(i)
  \/ \E i \in DOMAIN inv : WriteStreamError(i)
  \/ \E i \in DOMAIN inv : SourceStreamError(i)
  \/ \E i \in DOMAIN inv : ResumeAfterFailEmail(i)
  \/ \E i \in DOMAIN inv : ResumeAfterPromiseAll(i)
  \/ \E i \in DOMAIN inv : PutSettles(i)

Spec == Init /\ [][Next]_vars

\* The event loop runs every job that is ready, and every backend answers.
FairSpec == Spec /\ \A i \in Invocations : WF_vars(InvNext(i))

(* ---------------------------------------------------------------------- *)
(* Invocations that run side by side                                      *)
(* ---------------------------------------------------------------------- *)

\* Number of invocations the platform runs at the same time.
MaxRacers == 2

Racers == 1..MaxRacers

\* Complete messages for one (assignmentId, userId) pair: a submission, a
\* second submission of the same pair, and hence also a redelivery of either.
RaceEvents ==
  {[shape |-> "object", fields |-> [FullMessage EXCEPT !.submissionId = sid]] :
     sid \in {"s1", "s2"}}

\* The process is fully configured.
RaceInit ==
  /\ inv \in [Racers -> {NewInvocation(e) : e \in RaceEvents}]
  /\ processEnv = [gcpKey |-> TRUE, emailKey |-> TRUE]
  /\ bucket = {}
  /\ table = {}

RaceSpec == RaceInit /\ [][Next]_vars

(* ---------------------------------------------------------------------- *)
(* The storage key, computed for several messages                         *)
(* ---------------------------------------------------------------------- *)

\* Number of calls of uploadToGCS whose keys are compared.
MaxKeyCalls == 2

KeyCallers == 1..MaxKeyCalls

\* Identifiers that contain the separator of the key.
SlashIds == {"hw1/42", "42/42"}

\* Messages that differ in the pair and in the fields the key must not
\* depend on.  An identifier may be missing, may be the text "undefined",
\* and may contain "/".
KeyMessages ==
  {[submissionUrl |-> o[1], email |-> o[2], userId |-> u,
    submissionId |-> sid, assignmentId |-> a] :
     o \in {<<"https://x/a.zip", "u@e.com">>, <<"https://y/b.zip", "v@e.com">>},
     u \in {"42", "42/42", Undefined},
     sid \in {"s1", "s2"},
     a \in {"hw1", "hw1/42", "undefined", Undefined}}

\* Each caller is a handler that has parsed its message and downloaded the
\* file, at the call of uploadToGCS on line 27.
KeyInit ==
  /\ inv \in [KeyCallers ->
               {[NewInvocation([shape |-> "object", fields |-> m])
                   EXCEPT !.snsMessage = m, !.fetches = 1,
                          !.file = "response", !.submissionStatus = TRUE,
                          !.pc = "uploadCall"] : m \in KeyMessages}]
  /\ processEnv = [gcpKey |-> TRUE, emailKey |-> TRUE]
  /\ bucket = {}
  /\ table = {}

\* index.js:27: uploadToGCS(file, assignmentId, userId) is called.
KeyCall(i) ==
  /\ inv[i].pc = "uploadCall"
  /\ inv' = [inv EXCEPT ![i] =
               [uploadToGCS(@, processEnv) EXCEPT !.pc = "uploadCalled"]]
  /\ UNCHANGED <<processEnv, bucket, table>>

KeyNext == \E i \in DOMAIN inv : KeyCall(i)

KeySpec == KeyInit /\ [][KeyNext]_vars

(* ---------------------------------------------------------------------- *)
(* Properties                                                             *)
(* ---------------------------------------------------------------------- *)

\* The envelope of invocation i parses and carries all five fields.
ValidEnvelope(i) ==
  /\ inv[i].event.shape = "object"
  /\ HasAllFields(inv[i].event.fields)

\* The fetch of invocation i succeeded / failed.
FetchSucceeded(i) == inv[i].file = "response"

FetchFailed(i) == inv[i].file = "false"

\* The handler of invocation i has got past the join of its branch.
PastJoin(i) == inv[i].pc \in {"awaitPut", "done", "aborted"}

\* C1: for an envelope that parses and carries all five fields, the audit
\* write is attempted at most once at any time, only with id equal to the
\* envelope's submissionId, not before the record step, and exactly once when
\* the handler has reached the record step or has returned without an
\* exception having reached the top-level catch, whatever fetch, storage and
\* notification did.
C1_ExactlyOneAuditWrite ==
  \A i \in DOMAIN inv :
    ValidEnvelope(i) =>
      /\ Len(inv[i].puts) <= 1
      /\ \A k \in 1..Len(inv[i].puts) :
           inv[i].puts[k].id = inv[i].event.fields.submissionId
      /\ inv[i].pc \in {"awaitPut", "done"} => Len(inv[i].puts) = 1
      /\ inv[i].pc \notin {"awaitPut", "done"} => Len(inv[i].puts) = 0

\* A valid envelope whose fetch succeeded and whose storage write failed has
\* returned with its one audit write made.
C1_Witness ==
  \E i \in DOMAIN inv :
    /\ ValidEnvelope(i)
    /\ inv[i].pc = "done"
    /\ FetchSucceeded(i)
    /\ inv[i].stream = "errored"
    /\ Len(inv[i].puts) = 1
    /\ inv[i].puts[1].id = "s1"

\* C2: in every audit record written, submissionStatus is true exactly when
\* the fetch succeeded in that invocation.
C2_SubmissionStatusIsFetchOutcome ==
  \A i \in DOMAIN inv :
    \A k \in 1..Len(inv[i].puts) :
      inv[i].puts[k].submissionStatus = FetchSucceeded(i)

\* C3: in every audit record written, gcsStatus is true exactly when
\* uploadToGCS was invoked in that invocation and resolved true.
C3_GcsStatusIsUploadOutcome ==
  \A i \in DOMAIN inv :
    \A k \in 1..Len(inv[i].puts) :
      inv[i].puts[k].gcsStatus =
        (inv[i].uploads > 0 /\ inv[i].uploadP = "true")

\* C4: when the download fails, uploadToGCS is never invoked, the only
\* notification is the one failure-kind notification, and every audit record
\* written has submissionStatus = false and gcsStatus = false.
C4_FetchFailureBranch ==
  \A i \in DOMAIN inv :
    FetchFailed(i) =>
      /\ inv[i].uploads = 0
      /\ inv[i].stream = "none"
      /\ inv[i].uploadP = "none"
      /\ Len(inv[i].emails) = 1
      /\ inv[i].emails[1].kind = "fail"
      /\ \A k \in 1..Len(inv[i].delivered) : inv[i].delivered[k].kind = "fail"
      /\ \A k \in 1..Len(inv[i].puts) :
           /\ inv[i].puts[k].submissionStatus = FALSE
           /\ inv[i].puts[k].gcsStatus = FALSE

\* A failed download whose failure mail was delivered and whose record was
\* stored.
C4_Witness ==
  \E i \in DOMAIN inv :
    /\ FetchFailed(i)
    /\ inv[i].pc = "done"
    /\ Len(inv[i].delivered) = 1
    /\ Len(inv[i].puts) = 1
    /\ inv[i].puts[1] \in table

\* C5: when the decoded message lacks one of the five fields, the invocation
\* has no side effect: no storage call, no notification call, no audit write.
C5_MissingFieldNoSideEffects ==
  \A i \in DOMAIN inv :
    (inv[i].event.shape = "object" /\ ~HasAllFields(inv[i].event.fields)) =>
      /\ inv[i].uploads = 0
      /\ inv[i].emails = <<>>
      /\ inv[i].puts = <<>>

\* C6: on the fetch-success branch the handler is past the join (at the audit
\* write or in a terminal state) only when both the storage operation and the
\* success notification have completed, whatever their outcome.
C6_JoinWaitsForBoth ==
  \A i \in DOMAIN inv :
    (FetchSucceeded(i) /\ PastJoin(i)) =>
      /\ Settled(inv[i].uploadP)
      /\ Settled(inv[i].emailP)

\* C7: the promise returned by the handler is never rejected, and it resolves:
\* an invocation that has not returned can still take a step.
C7_HandlerAlwaysResolves ==
  \A i \in DOMAIN inv :
    /\ inv[i].result # "rejected"
    /\ inv[i].result = "resolved" \/ ENABLED InvNext(i)

\* C8: sendEmailToUser never rejects, and once it has settled it has resolved
\* true, for either kind.
C8_EmailNeverRejects ==
  \A i \in DOMAIN inv :
    /\ inv[i].emailP # "rejected"
    /\ Settled(inv[i].emailP) => inv[i].emailP = "true"

\* C9: every call of uploadToGCS eventually resolves to a boolean, and it
\* resolves true only if the write stream signalled "finish".
C9_UploadAlwaysResolves ==
  \A i \in Invocations :
    /\ [](inv[i].uploadP = "true" => inv[i].stream = "finished")
    /\ [](inv[i].uploads > 0 => <>Fulfilled(inv[i].uploadP))

\* C10: on the fetch-success branch the notification status recorded is the
\* result of the notification operation alone and the storage status recorded
\* is the result of the storage operation alone.
C10_OutcomesIndependent ==
  \A i \in DOMAIN inv :
    FetchSucceeded(i) =>
      \A k \in 1..Len(inv[i].puts) :
        /\ inv[i].puts[k].emailStatus = PromiseValue(inv[i].emailP)
        /\ inv[i].puts[k].gcsStatus = PromiseValue(inv[i].uploadP)

\* The effects of invocation i on storage and notification.
Effects(i) ==
  <<inv[i].uploads, inv[i].stream, inv[i].uploadP, inv[i].emails,
    inv[i].delivered, inv[i].emailP, bucket>>

\* C11: createEventInDynamoDB never rejects; when the audit write fails it
\* resolves false, the handler has then returned normally (done, not
\* aborted), and the step in which the audit write settles changes no storage
\* or notification effect of the invocation.
C11_AuditFailureSwallowed ==
  /\ [](\A i \in DOMAIN inv :
          /\ inv[i].putP # "rejected"
          /\ Settled(inv[i].putP) =>
               (inv[i].pc = "done" /\ inv[i].result = "resolved"))
  /\ [][\A i \in DOMAIN inv :
          (inv[i].putP = "pending" /\ inv'[i].putP # "pending") =>
             Effects(i)' = Effects(i)]_vars

\* An invocation that stored its artifact and delivered its mail, whose audit
\* write was refused, and that has returned normally.
C11_Witness ==
  \E i \in DOMAIN inv :
    /\ inv[i].putP = "false"
    /\ inv[i].pc = "done"
    /\ inv[i].result = "resolved"
    /\ inv[i].stream = "finished"
    /\ Len(inv[i].delivered) = 1
    /\ \E o \in bucket : o.from = i
    /\ table = {}

\* C12: once the top-level catch has run (aborted), nothing of the invocation
\* is still in progress: no storage write, no notification, no audit write.
C12_NoEffectAfterAbort ==
  \A i \in DOMAIN inv :
    inv[i].pc = "aborted" =>
      /\ inv[i].stream # "piping"
      /\ inv[i].emailP # "pending"
      /\ inv[i].putP # "pending"
      /\ inv[i].puts = <<>>

\* C13: an audit record, once in the table, stays in the table with the
\* values it was written with.
C13_RecordNeverMutated ==
  [][\A t \in table : t \in table']_vars

\* The (assignmentId, userId) pair of invocation i.
Pair(i) == <<inv[i].snsMessage.assignmentId, inv[i].snsMessage.userId>>

\* uploadToGCS has computed the key of invocation i.
KeyComputed(i) == inv[i].stream # "none"

\* C14 as stated: the key is assignmentId + "/" + userId + ".zip"; calls
\* with the same pair use the same key whatever the other fields are, and
\* calls with different pairs use different keys.
C14_KeyOneToOne ==
  \A i, j \in DOMAIN inv :
    (KeyComputed(i) /\ KeyComputed(j)) =>
      /\ inv[i].gcsFileName =
           ToStr(Pair(i)[1]) \o "/" \o ToStr(Pair(i)[2]) \o ".zip"
      /\ Pair(i) = Pair(j) => inv[i].gcsFileName = inv[j].gcsFileName
      /\ Pair(i) # Pair(j) => inv[i].gcsFileName # inv[j].gcsFileName

\* Both identifiers of invocation i are present and its assignmentId does
\* not contain "/".
PlainPair(i) ==
  /\ Pair(i)[1] # Undefined
  /\ Pair(i)[2] # Undefined
  /\ Pair(i)[1] \notin SlashIds

\* C14 as amended: the key is assignmentId + "/" + userId + ".zip" (a missing
\* identifier is written "undefined"); calls with the same pair use the same
\* key whatever the other fields are; calls with different pairs use
\* different keys provided both identifiers are present in both messages and
\* neither assignmentId contains "/".
C14_KeyFromPair ==
  \A i, j \in DOMAIN inv :
    (KeyComputed(i) /\ KeyComputed(j)) =>
      /\ inv[i].gcsFileName =
           ToStr(Pair(i)[1]) \o "/" \o ToStr(Pair(i)[2]) \o ".zip"
      /\ Pair(i) = Pair(j) => inv[i].gcsFileName = inv[j].gcsFileName
      /\ (Pair(i) # Pair(j) /\ PlainPair(i) /\ PlainPair(j)) =>
           inv[i].gcsFileName # inv[j].gcsFileName

\* Two calls for the pair (hw1, 42) that differ in submissionId, URL and
\* email have computed the same key.
C14_Witness ==
  /\ KeyComputed(1) /\ KeyComputed(2)
  /\ Pair(1) = <<"hw1", "42">> /\ Pair(2) = <<"hw1", "42">>
  /\ inv[1].snsMessage.submissionId # inv[2].snsMessage.submissionId
  /\ inv[1].snsMessage.email # inv[2].snsMessage.email
  /\ inv[1].snsMessage.submissionUrl # inv[2].snsMessage.submissionUrl
  /\ inv[1].gcsFileName = "hw1/42.zip"
  /\ inv[2].gcsFileName = "hw1/42.zip"

\* The write stream of invocation i signals "finish" in this step.
Finishes(i) == inv[i].stream = "piping" /\ inv'[i].stream = "finished"

\* The submissionId of invocation i is carried by no other invocation.
OwnSubmissionId(i) ==
  \A j \in DOMAIN inv :
    j # i => inv[j].event.fields.submissionId # inv[i].event.fields.submissionId

\* C17: concurrent invocations with the same (assignmentId, userId) pair all
\* write the one object hw1/42.zip; no write waits for another (a write in
\* progress can always finish); the object changes only when a write
\* finishes and then holds the artifact of that writer, so the writer that
\* finished last wins; and the audit record stored under an invocation's own
\* submissionId is the one that invocation wrote, with its own outcome.
C17_LastWriterWins ==
  /\ [](\A i \in DOMAIN inv :
          /\ inv[i].stream # "none" => inv[i].gcsFileName = "hw1/42.zip"
          /\ inv[i].stream = "piping" =>
               ENABLED (WriteStreamFinish(i) /\ Finishes(i))
          /\ (inv[i].putP = "true" /\ OwnSubmissionId(i)) =>
               /\ inv[i].puts[1] \in table
               /\ \A t \in table :
                    t.id = inv[i].event.fields.submissionId => t = inv[i].puts[1]
               /\ inv[i].puts[1].submissionStatus = (inv[i].uploadP = "true")
               /\ inv[i].puts[1].emailStatus = PromiseValue(inv[i].emailP))
  /\ [](\A o \in bucket : o.key = "hw1/42.zip")
  /\ [](Cardinality(bucket) <= 1)
  /\ [][/\ \A i \in DOMAIN inv :
            Finishes(i) => (\E o \in bucket' : o.from = i)
        /\ (\A i \in DOMAIN inv : ~Finishes(i)) => bucket' = bucket]_vars

\* Two invocations with different submissionIds have both finished their
\* storage write and stored their record; the object is the one of the first
\* of them, which therefore finished last.
C17_Witness ==
  /\ inv[1].stream = "finished"
  /\ inv[2].stream = "finished"
  /\ inv[1].event.fields.submissionId # inv[2].event.fields.submissionId
  /\ inv[1].pc = "done" /\ inv[1].putP = "true"
  /\ inv[2].pc = "done" /\ inv[2].putP = "true"
  /\ Cardinality(table) = 2
  /\ \E o \in bucket : o.from = 1

\* C15: an invocation has called sendEmailToUser at most once, not at all
\* while the outcome of the fetch is unknown, and exactly once when it is
\* known, with kind "success" if and only if the fetch succeeded and "fail"
\* if and only if it failed; only that mail is ever delivered; and the audit
\* write is started only after that one notification has resolved.
C15_OneNotificationOfFetchKind ==
  \A i \in DOMAIN inv :
    /\ Len(inv[i].emails) <= 1
    /\ inv[i].file = "none" => inv[i].emails = <<>>
    /\ inv[i].file # "none" =>
         /\ Len(inv[i].emails) = 1
         /\ inv[i].emails[1].kind = "success" <=> FetchSucceeded(i)
         /\ inv[i].emails[1].kind = "fail" <=> FetchFailed(i)
    /\ \A k \in 1..Len(inv[i].delivered) : inv[i].delivered[k] = inv[i].emails[1]
    /\ Len(inv[i].delivered) <= 1
    /\ inv[i].puts # <<>> => (Len(inv[i].emails) = 1 /\ Fulfilled(inv[i].emailP))

\* A successful fetch whose success mail was delivered before the audit write
\* was started.
C15_Witness ==
  \E i \in DOMAIN inv :
    /\ FetchSucceeded(i)
    /\ inv[i].pc = "awaitPut"
    /\ inv[i].delivered = <<[to |-> "u@e.com", kind |-> "success"]>>
    /\ Len(inv[i].puts) = 1

\* C16: within one invocation the fetch, the storage write, the notification
\* and the audit write are each issued at most once.
C16_NoRetry ==
  \A i \in DOMAIN inv :
    /\ inv[i].fetches <= 1
    /\ inv[i].uploads <= 1
    /\ Len(inv[i].emails) <= 1
    /\ Len(inv[i].puts) <= 1

\* An invocation has returned after its storage write, its mail and its audit
\* write all failed, each issued once.
C16_Witness ==
  \E i \in DOMAIN inv :
    /\ inv[i].pc = "done"
    /\ inv[i].fetches = 1
    /\ inv[i].uploads = 1 /\ inv[i].stream = "errored"
    /\ Len(inv[i].emails) = 1 /\ inv[i].delivered = <<>>
    /\ Len(inv[i].puts) = 1 /\ inv[i].putP = "false"

\* C18: in every audit record written, submissionStatus is (the fetch
\* succeeded and the storage operation resolved true), and the gcsStatus of
\* the status log line is that submissionStatus value.
C18_SubmissionStatusIsUploadResult ==
  \A i \in DOMAIN inv :
    /\ Len(inv[i].statusLog) = Len(inv[i].puts)
    /\ \A k \in 1..Len(inv[i].puts) :
         /\ inv[i].puts[k].submissionStatus =
              (FetchSucceeded(i) /\ inv[i].uploadP = "true")
         /\ inv[i].statusLog[k].gcsStatus = inv[i].puts[k].submissionStatus
         /\ inv[i].statusLog[k].submissionStatus = inv[i].puts[k].submissionStatus

\* A record whose logged gcsStatus (true) is not the persisted gcsStatus
\* (false).
C18_Witness ==
  \E i \in DOMAIN inv :
    /\ Len(inv[i].puts) = 1
    /\ inv[i].uploadP = "true"
    /\ inv[i].puts[1].submissionStatus = TRUE
    /\ inv[i].statusLog[1].gcsStatus = TRUE
    /\ inv[i].puts[1].gcsStatus = FALSE

\* C19: every audit record written, and every record in the table, has
\* emailStatus = true.
C19_EmailStatusAlwaysTrue ==
  /\ \A i \in DOMAIN inv :
       \A k \in 1..Len(inv[i].puts) : inv[i].puts[k].emailStatus = TRUE
  /\ \A t \in table : t.emailStatus = TRUE

\* A record with emailStatus true was stored although the backend did not
\* accept the failure mail.
C19_Witness ==
  \E i \in DOMAIN inv :
    /\ FetchFailed(i)
    /\ inv[i].pc = "done"
    /\ inv[i].delivered = <<>>
    /\ inv[i].puts[1].emailStatus = TRUE
    /\ inv[i].puts[1] \in table

====
